---- MODULE Spec2Model ----
(***************************************************************************)
(* Model of pymatgen/io/qchem_io/outputs.py: the QCCalc session object,    *)
(* its constructor, read_pattern and read_table_pattern.                   *)
(*                                                                         *)
(* A text is a sequence of tokens.  A token is one character (" ", "\n",   *)
(* "1", "-", "C", "E", "e", "#") or one literal phrase of the output file  *)
(* that the patterns of the source spell out letter by letter (for         *)
(* instance "FE" stands for the words "Final energy is").  A regular       *)
(* expression is a tree (Cls, Cat, Rep, Grp, Bol) matched the way Python's *)
(* re matches it: by backtracking, greedy repetition first, and the first  *)
(* complete path wins.                                                     *)
(***************************************************************************)
EXTENDS Integers, Sequences, FiniteSets, TLC

(***************************************************************************)
(* Regular expressions                                                     *)
(***************************************************************************)
Cls(S) == [t |-> "cls", set |-> S]
Cat(parts) == [t |-> "cat", parts |-> parts]
Rep(sub, min) == [t |-> "rep", sub |-> sub, min |-> min]
Grp(name, sub) == [t |-> "grp", name |-> name, sub |-> sub]
Bol == [t |-> "bol"]

Lit(tok) == Cls({tok})
Plus(sub) == Rep(sub, 1)
Star(sub) == Rep(sub, 0)

\* \s, \d, \w, [\d\-\.] and \- over the token alphabet (which has no "." token)
WS == {" ", "\n"}
DIGIT == {"1"}
WORDCH == {"1", "C", "E", "e"}
NUMCH == {"1", "-"}
DASH == {"-"}

NoMatch(pos) == [found |-> FALSE, s |-> pos, e |-> pos, caps |-> [k \in {} |-> <<0, 0>>]]

RECURSIVE AddNew(_, _)
\* seq followed by the elements of more that it does not hold yet
AddNew(seq, more) ==
    IF more = <<>> THEN seq
    ELSE AddNew(IF \E i \in 1..Len(seq) : seq[i] = Head(more) THEN seq
                ELSE Append(seq, Head(more)),
                Tail(more))

RECURSIVE RunLength(_, _, _)
\* the number of tokens of set S that text holds from offset pos on
RunLength(S, text, pos) ==
    IF pos < Len(text) /\ text[pos + 1] \in S THEN 1 + RunLength(S, text, pos + 1) ELSE 0

RECURSIVE Ends(_, _, _), EndsCat(_, _, _), EndsFrom(_, _, _, _), EndsMore(_, _, _, _, _)

\* Every offset at which a match of re that starts at offset pos (0-based)
\* can end, in the order the backtracking matcher of Python's re reaches
\* them: a greedy repetition tries one more round before it stops.  What
\* follows a match depends on its end only, so an end is listed once.
Ends(re, text, pos) ==
    CASE re.t = "cls" ->
            IF pos < Len(text) /\ text[pos + 1] \in re.set THEN <<pos + 1>> ELSE <<>>
      [] re.t = "bol" -> IF pos = 0 \/ text[pos] = "\n" THEN <<pos>> ELSE <<>>
      [] re.t = "cat" -> EndsCat(re.parts, text, <<pos>>)
      [] re.t = "grp" -> Ends(re.sub, text, pos)
      [] re.t = "rep" ->
            IF re.sub.t = "cls"
            THEN LET k == RunLength(re.sub.set, text, pos)
                 IN  [i \in 1..(k + 1 - re.min) |-> pos + k + 1 - i]
            ELSE AddNew(EndsMore(re.sub, text, pos, Ends(re.sub, text, pos), <<>>),
                        IF re.min = 0 THEN <<pos>> ELSE <<>>)

\* the parts one after the other, from every offset of starts
EndsCat(parts, text, starts) ==
    IF parts = <<>> \/ starts = <<>> THEN starts
    ELSE EndsCat(Tail(parts), text, EndsFrom(Head(parts), text, starts, <<>>))

EndsFrom(re, text, starts, acc) ==
    IF starts = <<>> THEN acc
    ELSE EndsFrom(re, text, Tail(starts), AddNew(acc, Ends(re, text, Head(starts))))

\* after one round ending at each of ends: more rounds first, then stop there
EndsMore(sub, text, pos, ends, acc) ==
    IF ends = <<>> THEN acc
    ELSE EndsMore(sub, text, pos, Tail(ends),
                  IF Head(ends) > pos
                  THEN AddNew(acc, Ends([t |-> "rep", sub |-> sub, min |-> 0], text, Head(ends)))
                  ELSE acc)

\* the top-level parts of an expression
Parts(re) == IF re.t = "cat" THEN re.parts ELSE <<re>>

RECURSIVE PathFrom(_, _, _), PathVia(_, _, _)
\* Where each top-level part ends on the first complete path from pos, or
\* <<>> when there is none: the ends of the first part are tried in order,
\* and the first from which the rest of the parts matches is taken.
PathFrom(parts, text, pos) == PathVia(parts, text, Ends(Head(parts), text, pos))

PathVia(parts, text, cands) ==
    IF cands = <<>> THEN <<>>
    ELSE LET rest == PathFrom(Tail(parts), text, Head(cands))
         IN  IF Tail(parts) = <<>> THEN <<Head(cands)>>
             ELSE IF rest # <<>> THEN <<Head(cands)>> \o rest
             ELSE PathVia(parts, text, Tail(cands))

\* pattern.match(text, pos): the first complete path, with the spans of the
\* groups that are top-level parts of the expression
MatchOn(parts, path, pos) ==
    LET groups == {i \in 1..Len(parts) : parts[i].t = "grp"}
    IN  IF path = <<>> THEN NoMatch(pos)
        ELSE [found |-> TRUE, s |-> pos, e |-> path[Len(path)],
              caps |-> [name \in {parts[i].name : i \in groups} |->
                           LET i == CHOOSE j \in groups : parts[j].name = name
                           IN  <<IF i = 1 THEN pos ELSE path[i - 1], path[i]>>]]

MatchAt(re, text, pos) == MatchOn(Parts(re), PathFrom(Parts(re), text, pos), pos)

Least(ps) == CHOOSE q \in ps : \A o \in ps : q <= o

RECURSIVE FirstMatch(_, _, _), OrFirstMatch(_, _, _, _)
\* the match at the smallest of the offsets ps that has one
FirstMatch(re, text, ps) ==
    IF ps = {} THEN NoMatch(0)
    ELSE OrFirstMatch(MatchAt(re, text, Least(ps)), re, text, ps \ {Least(ps)})

OrFirstMatch(m, re, text, ps) == IF m.found THEN m ELSE FirstMatch(re, text, ps)

\* pattern.search(text, pos): the leftmost offset with a match; a match
\* starts where the first part of the expression matches
SearchFrom(re, text, pos) ==
    FirstMatch(re, text,
               {p \in pos..Len(text) : Ends(Head(Parts(re)), text, p) # <<>>})

Search(re, text) == SearchFrom(re, text, 0)

RECURSIVE FindIterFrom(_, _, _), ThenFindIter(_, _, _)
\* pattern.finditer(text): leftmost, non-overlapping matches, left to right
FindIterFrom(re, text, pos) == ThenFindIter(SearchFrom(re, text, pos), re, text)

ThenFindIter(m, re, text) ==
    IF ~m.found THEN <<>>
    ELSE <<m>> \o FindIterFrom(re, text, IF m.e > m.s THEN m.e ELSE m.e + 1)

FindIter(re, text) == FindIterFrom(re, text, 0)

Slice(text, from, to) == SubSeq(text, from + 1, to)

RECURSIVE Split(_, _)
\* str.split(sep): the pieces between separators, empty pieces included
Split(s, sep) ==
    IF \A i \in 1..Len(s) : s[i] # sep THEN <<s>>
    ELSE LET i == CHOOSE j \in 1..Len(s) : s[j] = sep /\ \A k \in 1..(j - 1) : s[k] # sep
         IN  <<SubSeq(s, 1, i - 1)>> \o Split(SubSeq(s, i + 1, Len(s)), sep)

RECURSIVE FileLines(_)
\* iterating an open text file: the lines, each with its newline
FileLines(s) ==
    IF s = <<>> THEN <<>>
    ELSE IF \A i \in 1..Len(s) : s[i] # "\n" THEN <<s>>
    ELSE LET i == CHOOSE j \in 1..Len(s) : s[j] = "\n" /\ \A k \in 1..(j - 1) : s[k] # "\n"
         IN  <<SubSeq(s, 1, i)>> \o FileLines(SubSeq(s, i + 1, Len(s)))

Reverse(s) == [i \in 1..Len(s) |-> s[Len(s) + 1 - i]]

\* monty's reverse_readfile: the lines from the last to the first, newline stripped
ReverseLines(s) == Reverse(Split(s, "\n"))

(***************************************************************************)
(* postprocess: str (the default) or float                                 *)
(***************************************************************************)
RECURSIVE DigitsValue(_)
DigitsValue(ds) == IF ds = <<>> THEN 0 ELSE 10 * DigitsValue(SubSeq(ds, 1, Len(ds) - 1)) + 1

IsFloatLiteral(v) ==
    LET ds == IF v # <<>> /\ v[1] = "-" THEN Tail(v) ELSE v
    IN  ds # <<>> /\ \A i \in 1..Len(ds) : ds[i] \in DIGIT

FloatValue(v) ==
    IF v[1] = "-" THEN 0 - DigitsValue(Tail(v)) ELSE DigitsValue(v)

\* postprocess(v): [ok, val]; ok = FALSE when the callable raises
Postprocess(pp, v) ==
    IF pp = "str" THEN [ok |-> TRUE, val |-> v]
    ELSE IF IsFloatLiteral(v) THEN [ok |-> TRUE, val |-> FloatValue(v)]
    ELSE [ok |-> FALSE, val |-> 0]

\* m.groups() / m.groupdict() values as substrings of the searched text
GroupText(line, m, g) == Slice(line, m.caps[g][1], m.caps[g][2])

(***************************************************************************)
(* The patterns of the source, token by token.  A pattern is               *)
(* [re, groups (in order), named (the groups with a name)].                *)
(***************************************************************************)
Sp == Cls(WS)
Num == Plus(Cls(NUMCH))
Pattern(re, groups, named) == [re |-> re, groups |-> groups, named |-> named]

\* line 35: A\sunrestricted\sSCF\scalculation\swill\sbe
UnrestrictedPattern == Pattern(Lit("UNR"), <<>>, {})
\* line 38: \s+GEN_SCFMAN: A general SCF calculation manager
GenScfmanPattern == Pattern(Cat(<<Plus(Sp), Lit("GEN")>>), <<>>, {})
\* line 53: Final\senergy\sis\s+([\d\-\.]+)
FinalEnergyPattern == Pattern(Cat(<<Lit("FE"), Plus(Sp), Grp("1", Num)>>), <<"1">>, {})
\* line 57: <S\^2>\s=\s+([\d\-\.]+)
S2Pattern == Pattern(Cat(<<Lit("S2"), Plus(Sp), Grp("1", Num)>>), <<"1">>, {})

\* lines 79-81
GenHeader ==
    Pattern(Cat(<<Star(Sp), Plus(Cls(DASH)), Plus(Sp), Lit("HG"), Plus(Sp), Plus(Cls(DASH)),
                  Plus(Sp), Plus(Cls(DASH)), Plus(Sp), Lit("OMP"), Plus(Sp), Plus(Cls(DASH)),
                  Plus(Sp), Plus(Cls(DASH)), Plus(Sp), Lit("OMP"), Plus(Sp), Plus(Cls(DASH))>>),
            <<>>, {})
GenRow ==
    Pattern(Cat(<<Plus(Sp), Plus(Cls(DIGIT)), Plus(Sp), Grp("1", Num), Plus(Sp), Grp("2", Num),
                  Lit("e"), Grp("3", Num),
                  Star(Cat(<<Plus(Sp), Lit("CONV")>>)), Star(Cat(<<Plus(Sp), Lit("PSD")>>)),
                  Star(Cat(<<Plus(Sp), Lit("BFGS")>>)), Star(Cat(<<Plus(Sp), Lit("LS")>>))>>),
            <<"1", "2", "3">>, {})
GenFooter == Pattern(Cat(<<Plus(Cls(DASH)), Lit("\n"), Sp, Lit("TG")>>), <<>>, {})

\* lines 91-93
ScfHeader ==
    Pattern(Cat(<<Plus(Cls(DASH)), Plus(Sp), Lit("HS"), Plus(Sp), Plus(Cls(DASH))>>), <<>>, {})
ScfRow ==
    Pattern(Cat(<<Plus(Sp), Plus(Cls(DIGIT)), Plus(Sp), Grp("1", Num), Plus(Sp), Grp("2", Num),
                  Lit("E"), Grp("3", Num), Star(Cat(<<Sp, Lit("CONV")>>))>>),
            <<"1", "2", "3">>, {})
ScfFooter == Pattern(Cat(<<Plus(Cls(DASH)), Lit("\n"), Sp, Lit("TS")>>), <<>>, {})

\* lines 103-105
RestrictedHeader ==
    Pattern(Cat(<<Plus(Cls(DASH)), Plus(Sp), Lit("HM"), Plus(Sp), Plus(Cls(DASH))>>), <<>>, {})
RestrictedRow ==
    Pattern(Cat(<<Plus(Sp), Plus(Cls(DIGIT)), Sp, Grp("1", Plus(Cls(WORDCH))), Plus(Sp),
                  Grp("2", Num)>>),
            <<"1", "2">>, {})
MullikenFooter == Pattern(Cat(<<Sp, Sp, Plus(Cls(DASH)), Plus(Sp), Lit("SUM")>>), <<>>, {})

\* lines 115-117
UnrestrictedHeader ==
    Pattern(Cat(<<Plus(Cls(DASH)), Plus(Sp), Lit("HM"), Plus(Sp), Lit("SPIN"), Sp, Lit("AU"),
                  Plus(Sp), Plus(Cls(DASH))>>), <<>>, {})
UnrestrictedRow ==
    Pattern(Cat(<<Plus(Sp), Plus(Cls(DIGIT)), Sp, Grp("1", Plus(Cls(WORDCH))), Plus(Sp),
                  Grp("2", Num), Plus(Sp), Grp("3", Num)>>),
            <<"1", "2", "3">>, {})

(***************************************************************************)
(* monty.re.regrep, as read_pattern calls it (line 146): one search per    *)
(* pattern per line, each match recorded as <<groups, line number>> with   *)
(* the groups postprocessed; with terminate_on_match the scan stops after  *)
(* the first line by which every key has a match.                          *)
(***************************************************************************)
RECURSIVE PostprocessAll(_, _, _, _)
\* [postprocess(g) for g in m.groups()]: [ok, vals]
PostprocessAll(pp, line, m, groups) ==
    IF groups = <<>> THEN [ok |-> TRUE, vals |-> <<>>]
    ELSE LET v == Postprocess(pp, GroupText(line, m, Head(groups)))
             rest == PostprocessAll(pp, line, m, Tail(groups))
         IN  IF v.ok /\ rest.ok THEN [ok |-> TRUE, vals |-> <<v.val>> \o rest.vals]
             ELSE [ok |-> FALSE, vals |-> <<>>]

\* one pattern on one line: [found, got], got the postprocessed groups
LineGroups(m, line, p, pp) ==
    [found |-> m.found,
     got |-> IF m.found THEN PostprocessAll(pp, line, m, p.groups)
             ELSE [ok |-> TRUE, vals |-> <<>>]]

LineMatch(line, p, pp) == LineGroups(Search(p.re, line), line, p, pp)

\* the matches of one line, appended to acc: [ok, matches]
Recorded(hits, lineno, acc) ==
    IF \E k \in DOMAIN hits : ~hits[k].got.ok
    THEN [ok |-> FALSE, matches |-> acc]
    ELSE [ok |-> TRUE,
          matches |-> [k \in DOMAIN hits |->
                          IF hits[k].found
                          THEN Append(acc[k], <<hits[k].got.vals, lineno>>)
                          ELSE acc[k]]]

RegrepLine(line, lineno, patterns, pp, acc) ==
    Recorded([k \in DOMAIN patterns |-> LineMatch(line, patterns[k], pp)], lineno, acc)

RECURSIVE RegrepLoop(_, _, _, _, _, _, _), RegrepNext(_, _, _, _, _, _, _)
RegrepLoop(lines, i, patterns, reverse, terminate_on_match, pp, acc) ==
    IF i > Len(lines) THEN [ok |-> TRUE, matches |-> acc]
    ELSE RegrepNext(RegrepLine(lines[i], IF reverse THEN 0 - (i - 1) ELSE i - 1,
                               patterns, pp, acc),
                    lines, i, patterns, reverse, terminate_on_match, pp)

\* after a line: stop on an exception, or once every key has a match
RegrepNext(r, lines, i, patterns, reverse, terminate_on_match, pp) ==
    IF ~r.ok \/ (terminate_on_match /\ \A k \in DOMAIN patterns : r.matches[k] # <<>>)
    THEN r
    ELSE RegrepLoop(lines, i + 1, patterns, reverse, terminate_on_match, pp, r.matches)

regrep(text, patterns, reverse, terminate_on_match, pp) ==
    RegrepLoop(IF reverse THEN ReverseLines(text) ELSE FileLines(text), 1,
               patterns, reverse, terminate_on_match, pp,
               [k \in DOMAIN patterns |-> <<>>])

(***************************************************************************)
(* read_pattern (lines 146-149)                                            *)
(***************************************************************************)
\* the first group alone
EntryFirstGroup(i) == i[1][1]

\* line 149, i[0]: the first element of a regrep entry, its list of groups
EntryValue(i) == i[1]

\* line 149: [i[0] for i in matches.get(k, [])]
FieldValues(ms) == [n \in 1..Len(ms) |-> EntryValue(ms[n])]

\* only the keys that have a match
StoreMatched(d, keys, matches) ==
    [k \in DOMAIN d \cup {j \in keys : matches[j] # <<>>} |->
        IF k \in keys /\ matches[k] # <<>> THEN FieldValues(matches[k]) ELSE d[k]]

\* lines 148-149: self.data[k] = ... for every key of patterns
StorePatterns(d, keys, matches) ==
    [k \in DOMAIN d \cup keys |-> IF k \in keys THEN FieldValues(matches[k]) ELSE d[k]]

(***************************************************************************)
(* read_table_pattern (lines 192-218)                                      *)
(***************************************************************************)
\* header and rows, no footer
TablePatternOpen(h, r, f) ==
    Cat(<<h.re, Star(Sp), Bol, Grp("table_body", Plus(Cat(<<Plus(Sp), r.re>>)))>>)

\* line 195: header + \s*^(?P<table_body>(?:\s+ row)+)\s+ + footer, MULTILINE
TablePattern(h, r, f) ==
    Cat(<<h.re, Star(Sp), Bol,
          Grp("table_body", Plus(Cat(<<Plus(Sp), r.re>>))),
          Plus(Sp), f.re>>)

\* line 200: mt.group("table_body")
TableBody(text, mt) == Slice(text, mt.caps["table_body"][1], mt.caps["table_body"][2])

\* the body as one line
BodyLinesWhole(body) == <<body>>

\* line 202: table_body_text.split("\n")
BodyLines(body) == Split(body, "\n")

\* lines 205-210 for one line and its match ml: [outcome, row]
RowOf(ml, line, r, pp) ==
    LET listed == PostprocessAll(pp, line, ml, r.groups)
        keyed == [g \in r.named |-> Postprocess(pp, GroupText(line, ml, g))]
    IN  IF ~ml.found THEN [outcome |-> "AttributeError", row |-> <<>>]
        ELSE IF r.named # {}
        THEN IF \A g \in r.named : keyed[g].ok
             THEN [outcome |-> "ok", row |-> [g \in r.named |-> keyed[g].val]]
             ELSE [outcome |-> "ValueError", row |-> <<>>]
        ELSE IF listed.ok THEN [outcome |-> "ok", row |-> listed.vals]
             ELSE [outcome |-> "ValueError", row |-> <<>>]

\* a line without a match gives an empty row
RowOrEmpty(ml, line, r, pp) ==
    IF ml.found THEN RowOf(ml, line, r, pp) ELSE [outcome |-> "ok", row |-> <<>>]

ParseLineLenient(line, r, pp) == RowOrEmpty(Search(r.re, line), line, r, pp)

\* lines 204-210 for one line: [outcome, row]
ParseLine(line, r, pp) == RowOf(Search(r.re, line), line, r, pp)

RECURSIVE ParseLines(_, _, _, _), ThenParseLines(_, _, _, _, _)
\* lines 201-210: the rows of one body after rows, stopping at the first exception
ParseLines(lines, r, pp, rows) ==
    IF lines = <<>> THEN [outcome |-> "ok", rows |-> rows]
    ELSE ThenParseLines(ParseLine(Head(lines), r, pp), Tail(lines), r, pp, rows)

ThenParseLines(first, lines, r, pp, rows) ==
    IF first.outcome # "ok" THEN [outcome |-> first.outcome, rows |-> <<>>]
    ELSE ParseLines(lines, r, pp, Append(rows, first.row))

RECURSIVE ParseTables(_, _, _, _, _), ThenParseTables(_, _, _, _, _, _)
\* lines 198-211: one table per match after tables, stopping at the first exception
ParseTables(text, mts, r, pp, tables) ==
    IF mts = <<>> THEN [outcome |-> "ok", tables |-> tables]
    ELSE ThenParseTables(ParseLines(BodyLines(TableBody(text, Head(mts))), r, pp, <<>>),
                         text, Tail(mts), r, pp, tables)

ThenParseTables(first, text, mts, r, pp, tables) ==
    IF first.outcome # "ok" THEN [outcome |-> first.outcome, tables |-> <<>>]
    ELSE ParseTables(text, mts, r, pp, Append(tables, first.rows))

\* the first table
RetainFirst(tables, last_one_only) ==
    IF last_one_only
    THEN IF tables = <<>> THEN [outcome |-> "IndexError", ret |-> <<>>]
         ELSE [outcome |-> "ok", ret |-> tables[1]]
    ELSE [outcome |-> "ok", ret |-> tables]

\* lines 212-215: tables[-1] or tables
Retain(tables, last_one_only) ==
    IF last_one_only
    THEN IF tables = <<>> THEN [outcome |-> "IndexError", ret |-> <<>>]
         ELSE [outcome |-> "ok", ret |-> tables[Len(tables)]]
    ELSE [outcome |-> "ok", ret |-> tables]

\* lines 212-215 on the parsed tables: [outcome, ret, spans]
Retained(parsed, mts, last_one_only) ==
    IF parsed.outcome # "ok"
    THEN [outcome |-> parsed.outcome, ret |-> <<>>, spans |-> mts]
    ELSE [outcome |-> Retain(parsed.tables, last_one_only).outcome,
          ret |-> Retain(parsed.tables, last_one_only).ret,
          spans |-> mts]

\* lines 198-215 on the matches of finditer
TablesOf(mts, text, r, pp, last_one_only) ==
    Retained(ParseTables(text, mts, r, pp, <<>>), mts, last_one_only)

\* lines 195-215: [outcome, ret, spans]; spans are the matches of finditer
ReadTable(text, h, r, f, pp, last_one_only) ==
    TablesOf(FindIter(TablePattern(h, r, f), text), text, r, pp, last_one_only)

\* stored even under None
StoreTableAlways(d, attribute_name, retained) ==
    [k \in DOMAIN d \cup {attribute_name} |->
        IF k = attribute_name THEN retained ELSE d[k]]

\* lines 216-217: stored under attribute_name unless it is None
None == "None"
StoreTable(d, attribute_name, retained) ==
    IF attribute_name = None THEN d
    ELSE [k \in DOMAIN d \cup {attribute_name} |->
             IF k = attribute_name THEN retained ELSE d[k]]

(***************************************************************************)
(* The patterns a call can name                                            *)
(***************************************************************************)
\* a row pattern with named groups: \s+\d+\s(?P<atom>\w+)\s+(?P<charge>[\d\-\.]+)
NamedRow ==
    Pattern(Cat(<<Plus(Sp), Plus(Cls(DIGIT)), Sp, Grp("atom", Plus(Cls(WORDCH))), Plus(Sp),
                  Grp("charge", Num)>>),
            <<"atom", "charge">>, {"atom", "charge"})

\* a scalar pattern with two groups: Final\senergy\sis\s+(\-{0,})(\d+)
SignedEnergyPattern ==
    Pattern(Cat(<<Lit("FE"), Plus(Sp), Grp("1", Star(Cls(DASH))), Grp("2", Plus(Cls(DIGIT)))>>),
            <<"1", "2">>, {})

ScalarPattern(id) ==
    CASE id = "unrestricted" -> UnrestrictedPattern
      [] id = "using_GEN_SCFMAN" -> GenScfmanPattern
      [] id = "final_energy" -> FinalEnergyPattern
      [] id = "S2" -> S2Pattern
      [] id = "signed_energy" -> SignedEnergyPattern

Triple(id) ==
    CASE id = "GEN_SCFMAN" -> [h |-> GenHeader, r |-> GenRow, f |-> GenFooter]
      [] id = "SCF" -> [h |-> ScfHeader, r |-> ScfRow, f |-> ScfFooter]
      [] id = "restricted_Mulliken" ->
            [h |-> RestrictedHeader, r |-> RestrictedRow, f |-> MullikenFooter]
      [] id = "unrestricted_Mulliken" ->
            [h |-> UnrestrictedHeader, r |-> UnrestrictedRow, f |-> MullikenFooter]
      [] id = "named_Mulliken" ->
            [h |-> RestrictedHeader, r |-> NamedRow, f |-> MullikenFooter]

Patterns(ids) == [k \in DOMAIN ids |-> ScalarPattern(ids[k])]

(***************************************************************************)
(* The session: QCCalc                                                     *)
(***************************************************************************)
VARIABLES
    text,   \* the content of self.filename
    data,   \* self.data, the Result Mapping
    pc,     \* where __init__ stands; "done" once the object exists
    last,   \* the most recent call: its arguments, outcome and return value
    layout  \* the segments the file was written from (never read by the program)

vars == <<text, data, pc, last, layout>>

EmptyData == [k \in {} |-> <<>>]

NoCall ==
    [op |-> "none", patterns |-> EmptyData, reverse |-> FALSE, terminate_on_match |-> FALSE,
     triple |-> None, attribute_name |-> None, last_one_only |-> FALSE, pp |-> "str",
     outcome |-> "ok", ret |-> <<>>, spans |-> <<>>]

PatternCall(ids, reverse, terminate_on_match, pp) ==
    [NoCall EXCEPT !.op = "read_pattern", !.patterns = ids, !.reverse = reverse,
                   !.terminate_on_match = terminate_on_match, !.pp = pp]

TableCall(triple, pp, attribute_name, last_one_only) ==
    [NoCall EXCEPT !.op = "read_table_pattern", !.triple = triple, !.pp = pp,
                   !.attribute_name = attribute_name, !.last_one_only = last_one_only]

\* the call with what became of it
Logged(res, call) ==
    [call EXCEPT !.outcome = res.outcome, !.ret = res.ret, !.spans = res.spans]

\* any key counts
TruthyKey(d, k) == k \in DOMAIN d

\* dict.get(k, []) of line 41, 47, 56 and its truth value
Truthy(d, k) == k \in DOMAIN d /\ d[k] # <<>>

\* what the scan found is stored even when it raised
ScannedPartly(m, d, keys) ==
    [outcome |-> IF m.ok THEN "ok" ELSE "ValueError",
     data |-> StorePatterns(d, keys, m.matches), ret |-> <<>>, spans |-> <<>>]

\* lines 146-149 on the result m of regrep: an exception of postprocess
\* leaves line 146, and lines 148-149 store every key
Scanned(m, d, keys) ==
    IF ~m.ok THEN [outcome |-> "ValueError", data |-> d, ret |-> <<>>, spans |-> <<>>]
    ELSE [outcome |-> "ok", data |-> StorePatterns(d, keys, m.matches),
          ret |-> <<>>, spans |-> <<>>]

\* read_pattern(ids, ...): [outcome, data, ret, spans]; readable = FALSE when
\* the file cannot be read
ReadPatternResult(txt, d, ids, reverse, terminate_on_match, pp, readable) ==
    IF ~readable THEN [outcome |-> "IOError", data |-> d, ret |-> <<>>, spans |-> <<>>]
    ELSE Scanned(regrep(txt, Patterns(ids), reverse, terminate_on_match, pp), d, DOMAIN ids)

SpanOf(mt) ==
    [s |-> mt.s, bs |-> mt.caps["table_body"][1], be |-> mt.caps["table_body"][2], e |-> mt.e]

\* lines 216-218 on the result res of lines 195-215
Stored(res, d, attribute_name) ==
    [outcome |-> res.outcome,
     data |-> IF res.outcome = "ok" THEN StoreTable(d, attribute_name, res.ret) ELSE d,
     ret |-> res.ret,
     spans |-> [i \in 1..Len(res.spans) |-> SpanOf(res.spans[i])]]

\* read_table_pattern(...): [outcome, data, ret, spans]
ReadTableResult(txt, d, triple, pp, attribute_name, last_one_only, readable) ==
    IF ~readable THEN [outcome |-> "IOError", data |-> d, ret |-> <<>>, spans |-> <<>>]
    ELSE Stored(ReadTable(txt, Triple(triple).h, Triple(triple).r, Triple(triple).f,
                          pp, last_one_only),
                d, attribute_name)

\* the call ends: self.data and the log of the call
Returns(res, call) == data' = res.data /\ last' = Logged(res, call)

read_pattern(ids, reverse, terminate_on_match, pp, readable) ==
    Returns(ReadPatternResult(text, data, ids, reverse, terminate_on_match, pp, readable),
            PatternCall(ids, reverse, terminate_on_match, pp))

read_table_pattern(triple, pp, attribute_name, last_one_only, readable) ==
    Returns(ReadTableResult(text, data, triple, pp, attribute_name, last_one_only, readable),
            TableCall(triple, pp, attribute_name, last_one_only))

\* an exception in __init__ ends it: no object
Advance(next) == pc' = IF last'.outcome = "ok" THEN next ELSE "failed"

\* line 35
InitUnrestricted ==
    /\ pc = "unrestricted"
    /\ \E readable \in BOOLEAN :
          read_pattern([unrestricted |-> "unrestricted"], FALSE, TRUE, "str", readable)
    /\ Advance("using_GEN_SCFMAN")
    /\ UNCHANGED <<text, layout>>

\* line 38
InitGenScfman ==
    /\ pc = "using_GEN_SCFMAN"
    /\ \E readable \in BOOLEAN :
          read_pattern([using_GEN_SCFMAN |-> "using_GEN_SCFMAN"], FALSE, TRUE, "str", readable)
    /\ Advance("scf")
    /\ UNCHANGED <<text, layout>>

\* lines 41-42, 75-84
InitReadGenScfman ==
    /\ pc = "scf"
    /\ Truthy(data, "using_GEN_SCFMAN")
    /\ \E readable \in BOOLEAN :
          read_table_pattern("GEN_SCFMAN", "str", "GEN_SCFMAN", FALSE, readable)
    /\ Advance("mulliken")
    /\ UNCHANGED <<text, layout>>

\* lines 43-44, 87-96
InitReadScf ==
    /\ pc = "scf"
    /\ ~Truthy(data, "using_GEN_SCFMAN")
    /\ \E readable \in BOOLEAN :
          read_table_pattern("SCF", "str", "SCF", FALSE, readable)
    /\ Advance("mulliken")
    /\ UNCHANGED <<text, layout>>

\* lines 47-48, 111-120
InitReadUnrestrictedMulliken ==
    /\ pc = "mulliken"
    /\ Truthy(data, "unrestricted")
    /\ \E readable \in BOOLEAN :
          read_table_pattern("unrestricted_Mulliken", "str", "unrestricted_Mulliken",
                             FALSE, readable)
    /\ Advance("final_energy")
    /\ UNCHANGED <<text, layout>>

\* lines 49-50, 99-108
InitReadRestrictedMulliken ==
    /\ pc = "mulliken"
    /\ ~Truthy(data, "unrestricted")
    /\ \E readable \in BOOLEAN :
          read_table_pattern("restricted_Mulliken", "str", "restricted_Mulliken",
                             FALSE, readable)
    /\ Advance("final_energy")
    /\ UNCHANGED <<text, layout>>

\* lines 53, 56
InitFinalEnergy ==
    /\ pc = "final_energy"
    /\ \E readable \in BOOLEAN :
          read_pattern([final_energy |-> "final_energy"], FALSE, FALSE, "str", readable)
    /\ Advance(IF Truthy(data', "unrestricted") THEN "S2" ELSE "done")
    /\ UNCHANGED <<text, layout>>

\* line 57
InitS2 ==
    /\ pc = "S2"
    /\ \E readable \in BOOLEAN :
          read_pattern([S2 |-> "S2"], FALSE, FALSE, "str", readable)
    /\ Advance("done")
    /\ UNCHANGED <<text, layout>>

\* a call on the constructed object
CallReadPattern(idsets, reverses, terminates, pps, readables) ==
    /\ pc = "done"
    /\ \E ids \in idsets, reverse \in reverses, terminate_on_match \in terminates,
          pp \in pps, readable \in readables :
          read_pattern(ids, reverse, terminate_on_match, pp, readable)
    /\ UNCHANGED <<text, pc, layout>>

CallReadTablePattern(triples, pps, attribute_names, last_one_onlys, readables) ==
    /\ pc = "done"
    /\ \E triple \in triples, pp \in pps, attribute_name \in attribute_names,
          last_one_only \in last_one_onlys, readable \in readables :
          read_table_pattern(triple, pp, attribute_name, last_one_only, readable)
    /\ UNCHANGED <<text, pc, layout>>

\* __init__ as a function of the file, for a file that can be read:
\* [ok, data, last] after each call, ok = FALSE once a call has raised
Made(res, call) == [ok |-> res.outcome = "ok", data |-> res.data, last |-> Logged(res, call)]

ThenPattern(c, txt, ids, terminate_on_match) ==
    IF ~c.ok THEN c
    ELSE Made(ReadPatternResult(txt, c.data, ids, FALSE, terminate_on_match, "str", TRUE),
              PatternCall(ids, FALSE, terminate_on_match, "str"))

ThenTable(c, txt, triple) ==
    IF ~c.ok THEN c
    ELSE Made(ReadTableResult(txt, c.data, triple, "str", triple, FALSE, TRUE),
              TableCall(triple, "str", triple, FALSE))

\* lines 41-44
ThenScf(c, txt) ==
    ThenTable(c, txt, IF Truthy(c.data, "using_GEN_SCFMAN") THEN "GEN_SCFMAN" ELSE "SCF")

\* lines 47-50
ThenMulliken(c, txt) ==
    ThenTable(c, txt, IF Truthy(c.data, "unrestricted") THEN "unrestricted_Mulliken"
                      ELSE "restricted_Mulliken")

\* lines 56-57
ThenS2(c, txt) ==
    IF c.ok /\ Truthy(c.data, "unrestricted") THEN ThenPattern(c, txt, [S2 |-> "S2"], FALSE)
    ELSE c

Construct(txt) ==
    ThenS2(
      ThenPattern(
        ThenMulliken(
          ThenScf(
            ThenPattern(
              ThenPattern([ok |-> TRUE, data |-> EmptyData, last |-> NoCall],
                          txt, [unrestricted |-> "unrestricted"], TRUE),
              txt, [using_GEN_SCFMAN |-> "using_GEN_SCFMAN"], TRUE),
            txt),
          txt),
        txt, [final_energy |-> "final_energy"], FALSE),
      txt)

(***************************************************************************)
(* Output files: a text is a concatenation of segments                     *)
(***************************************************************************)
Segment(id) ==
    CASE id = "unr" -> <<" ", "UNR", "\n">>
      [] id = "gen" -> <<" ", "GEN", "\n">>
      [] id = "fe" -> <<" ", "FE", " ", "-", "1", "\n">>
      [] id = "fe2" -> <<" ", "FE", " ", "1", "1", "\n">>
      [] id = "fedash" -> <<" ", "FE", " ", "-", "\n">>
      [] id = "s2" -> <<" ", "S2", " ", "1", "1", "\n">>
      [] id = "junk" -> <<"#", "\n">>
      [] id = "blank" -> <<"\n">>
      \* old-style SCF table: header, one row, footer
      [] id = "scf" -> <<"-", "\n", " ", "HS", "\n", "-", "\n",
                         " ", " ", "1", " ", "-", "1", " ", "1", "E", "-", "1", " ", "CONV", "\n",
                         "-", "\n", " ", "TS", "\n">>
      \* GEN_SCFMAN table: header, one row, footer
      [] id = "gentab" -> <<"-", "\n", " ", "HG", "\n", "-", "\n", "-", "\n", " ", "OMP", "\n",
                            "-", "\n", "-", "\n", " ", "OMP", "\n", "-", "\n",
                            " ", " ", "1", " ", "-", "1", " ", "1", "e", "-", "1", "\n",
                            "-", "\n", " ", "TG", "\n">>
      \* Mulliken tables, restricted and unrestricted, in pieces
      [] id = "rhdr" -> <<"-", "\n", " ", "HM", "\n", "-", "\n">>
      [] id = "rrow" -> <<" ", " ", "1", " ", "C", " ", "-", "1", "\n">>
      [] id = "uhdr" -> <<"-", "\n", " ", "HM", " ", "SPIN", " ", "AU", "\n", "-", "\n">>
      [] id = "urow" -> <<" ", " ", "1", " ", "C", " ", "-", "1", " ", "1", "\n">>
      [] id = "urow2" -> <<" ", " ", "1", " ", "1", " ", "1", " ", "-", "1", "\n">>
      [] id = "brow" -> <<"\n", " ", " ", "1", " ", "C", " ", "-", "1", " ", "1", "\n">>
      [] id = "usplit" -> <<" ", " ", "1", "\n", "C", " ", "-", "1", " ", "1", "\n">>
      [] id = "ftr" -> <<" ", " ", "-", "\n", " ", "SUM", "\n">>
      \* whole Mulliken tables
      [] id = "rtab" -> <<"-", "\n", " ", "HM", "\n", "-", "\n",
                          " ", " ", "1", " ", "C", " ", "-", "1", "\n",
                          " ", " ", "-", "\n", " ", "SUM", "\n">>
      [] id = "rblank" -> <<"-", "\n", " ", "HM", "\n", "-", "\n",
                            " ", " ", "1", " ", "C", " ", "-", "1", "\n", "\n",
                            " ", " ", "1", " ", "1", " ", "1", "\n",
                            " ", " ", "-", "\n", " ", "SUM", "\n">>
      [] id = "utab" -> <<"-", "\n", " ", "HM", " ", "SPIN", " ", "AU", "\n", "-", "\n",
                          " ", " ", "1", " ", "C", " ", "-", "1", " ", "1", "\n",
                          " ", " ", "-", "\n", " ", "SUM", "\n">>
      [] id = "ublank" -> <<"-", "\n", " ", "HM", " ", "SPIN", " ", "AU", "\n", "-", "\n",
                            " ", " ", "1", " ", "C", " ", "-", "1", " ", "1", "\n", "\n",
                            " ", " ", "1", " ", "1", " ", "1", " ", "-", "1", "\n",
                            " ", " ", "-", "\n", " ", "SUM", "\n">>
      [] id = "utab2" -> <<"-", "\n", " ", "HM", " ", "SPIN", " ", "AU", "\n", "-", "\n",
                           " ", " ", "1", " ", "C", " ", "-", "1", " ", "1", "\n",
                           " ", " ", "1", " ", "1", " ", "1", " ", "-", "1", "\n",
                           " ", " ", "-", "\n", " ", "SUM", "\n">>

RECURSIVE Concat(_)
Concat(segs) ==
    IF segs = <<>> THEN <<>> ELSE Segment(Head(segs)) \o Concat(Tail(segs))

Layouts(ids, n) == UNION {[1..k -> ids] : k \in 0..n}

(***************************************************************************)
(* Specifications                                                          *)
(***************************************************************************)
MaxSegs == 2
MaxLines == 4
MaxBlocks == 3
MaxScalarLines == 3
MaxSessionSegs == 2

HasSeg(id) == \E i \in DOMAIN layout : layout[i] = id

\* Spec: __init__, from its first line, on every file of at most MaxSegs segments
SpecSegs == {"unr", "gen", "fe", "fedash", "s2", "scf", "gentab", "rtab", "utab", "rblank"}

Init ==
    /\ layout \in Layouts(SpecSegs, MaxSegs)
    /\ text = Concat(layout)
    /\ data = EmptyData
    /\ pc = "unrestricted"
    /\ last = NoCall

Next ==
    \/ InitUnrestricted
    \/ InitGenScfman
    \/ InitReadGenScfman
    \/ InitReadScf
    \/ InitReadUnrestrictedMulliken
    \/ InitReadRestrictedMulliken
    \/ InitFinalEnergy
    \/ InitS2

Spec == Init /\ [][Next]_vars

IsMade(c) == c.ok /\ data = c.data /\ last = c.last /\ pc = "done"

\* the state __init__ leaves behind on a file it reads to the end
Constructed(segs, n) ==
    /\ layout \in Layouts(segs, n)
    /\ text = Concat(layout)
    /\ IsMade(Construct(text))

\* the constructor's steps end in the state Construct computes
ConstructedAgrees ==
    pc = "done" => Construct(text) = [ok |-> TRUE, data |-> data, last |-> last]

\* SpecTable: table reads on a constructed session, files made of table lines
TableSegs == {"uhdr", "urow", "brow", "junk", "ftr"}

InitTable == Constructed(TableSegs, MaxLines)

NextTable ==
    CallReadTablePattern({"unrestricted_Mulliken"}, {"str"}, {None}, BOOLEAN, {TRUE})

SpecTable == InitTable /\ [][NextTable]_vars

\* SpecBlocks: table reads on files made of whole tables (well formed, or with
\* a blank line between two rows) and the text between them
BlockSegs == {"utab", "utab2", "ublank", "junk", "urow"}

InitBlocks == Constructed(BlockSegs, MaxBlocks)

NextBlocks ==
    CallReadTablePattern({"unrestricted_Mulliken"}, {"str"}, {None}, BOOLEAN, {TRUE})

SpecBlocks == InitBlocks /\ [][NextBlocks]_vars

\* SpecScalar: read_pattern on files of scalar lines
ScalarSegs == {"fe", "fe2", "s2", "junk"}

InitScalar == Constructed(ScalarSegs, MaxScalarLines)

NextScalar ==
    CallReadPattern({[final_energy |-> "final_energy"],
                     [energy |-> "signed_energy", S2 |-> "S2"]},
                    BOOLEAN, BOOLEAN, {"str"}, {TRUE})

SpecScalar == InitScalar /\ [][NextScalar]_vars

\* SpecSession: calls of both kinds, succeeding and failing, on one session
SessionSegs == {"fe", "fedash", "utab", "ublank"}

InitSession == Constructed(SessionSegs, MaxSessionSegs)

SessionReadPattern ==
    CallReadPattern({[final_energy |-> "final_energy"],
                     [energy |-> "final_energy", S2 |-> "S2"]},
                    {FALSE}, {FALSE}, {"float"}, BOOLEAN)

SessionReadTable ==
    CallReadTablePattern({"unrestricted_Mulliken"}, {"str", "float"}, {None, "charges"},
                         BOOLEAN, BOOLEAN)

NextSession == SessionReadPattern \/ SessionReadTable

SpecSession == InitSession /\ [][NextSession]_vars

(***************************************************************************)
(* Properties                                                              *)
(***************************************************************************)
ReadTableCalled == last.op = "read_table_pattern"
ReadPatternCalled == last.op = "read_pattern"

\* the patterns of the last table call
CallHeader == Triple(last.triple).h
CallRow == Triple(last.triple).r
CallFooter == Triple(last.triple).f

(***************************************************************************)
(* Tables, block by block (SpecBlocks)                                     *)
(***************************************************************************)
\* the groups of the two kinds of row a block holds
RowC == <<<<"C">>, <<"-", "1">>, <<"1">>>>
Row1 == <<<<"1">>, <<"1">>, <<"-", "1">>>>

IsBlock(id) == id \in {"utab", "utab2"}

\* the rows written between the header and the footer of a block
BlockRows(id) == IF id = "utab" THEN <<RowC>> ELSE <<RowC, Row1>>

RECURSIVE BlockTables(_)
\* one table per block of the layout, in the order of the file
BlockTables(lay) ==
    IF lay = <<>> THEN <<>>
    ELSE (IF IsBlock(Head(lay)) THEN <<BlockRows(Head(lay))>> ELSE <<>>)
         \o BlockTables(Tail(lay))

BodyLinesOf(sp) == Split(Slice(text, sp.bs, sp.be), "\n")

Unmatched(line) == ~Search(CallRow.re, line).found

\* a line of a captured body that row_pattern does not match
HasUnmatchedLine ==
    \E i \in DOMAIN last.spans :
        \E j \in DOMAIN BodyLinesOf(last.spans[i]) : Unmatched(BodyLinesOf(last.spans[i])[j])

\* C3: if a line of a captured table body is not matched by row_pattern, the
\* call fails (AttributeError) and returns no table, whatever was parsed
\* before that line.
C3_UnmatchedLineFails ==
    ReadTableCalled /\ HasUnmatchedLine =>
        last.outcome = "AttributeError" /\ last.ret = <<>>

\* a first table of rows only, then a table whose first line is a row and
\* whose second line is not, have been read
C3_LaterLineUnmatched ==
    /\ ReadTableCalled /\ HasUnmatchedLine
    /\ Len(last.spans) = 2
    /\ \A j \in DOMAIN BodyLinesOf(last.spans[1]) : ~Unmatched(BodyLinesOf(last.spans[1])[j])
    /\ ~Unmatched(BodyLinesOf(last.spans[2])[1])
    /\ Unmatched(BodyLinesOf(last.spans[2])[2])

\* C1: on a file of n >= 0 header/rows/footer blocks with other text between
\* them, read_table_pattern with last_one_only = False succeeds and returns n
\* tables, the i-th holding the rows of the i-th block in line order; n = 0
\* gives the empty list.
C1_OneTablePerBlock ==
    ReadTableCalled /\ ~last.last_one_only /\ ~HasSeg("ublank") =>
        last.outcome = "ok" /\ last.ret = BlockTables(layout)

\* two different blocks with other text between them have been read
C1_TwoBlocksRead ==
    /\ ReadTableCalled /\ ~last.last_one_only
    /\ Len(layout) = 3 /\ IsBlock(layout[1]) /\ ~IsBlock(layout[2]) /\ IsBlock(layout[3])
    /\ layout[1] # layout[3]
    /\ Len(last.ret) = 2

\* C4: when the file holds a table, last_one_only = True returns the last
\* element of what the same call returns with last_one_only = False, as a
\* table and not as a list of tables.
C4_LastOneOnly ==
    ReadTableCalled /\ last.last_one_only =>
        LET all == ReadTable(text, CallHeader, CallRow, CallFooter, last.pp, FALSE)
        IN  all.outcome = "ok" /\ all.ret # <<>> =>
                last.outcome = "ok" /\ last.ret = all.ret[Len(all.ret)]

\* last_one_only = True has been used on a file whose first and last tables differ
C4_LastOfSeveral ==
    /\ ReadTableCalled /\ last.last_one_only /\ last.outcome = "ok"
    /\ Len(layout) >= 2 /\ IsBlock(layout[1]) /\ IsBlock(layout[Len(layout)])
    /\ layout[1] # layout[Len(layout)]
    /\ last.ret = BlockRows(layout[Len(layout)])

(***************************************************************************)
(* Tables, line by line (SpecTable)                                        *)
(***************************************************************************)
RowSegs == {"urow", "brow"}

\* segment i is a row of a run of rows that a header opens and a footer closes
Framed(i) ==
    /\ layout[i] \in RowSegs
    /\ \E h \in 1..(i - 1) : \E f \in (i + 1)..Len(layout) :
          /\ layout[h] = "uhdr"
          /\ layout[f] = "ftr"
          /\ \A j \in (h + 1)..(f - 1) : layout[j] \in RowSegs

FramedRows == {i \in DOMAIN layout : Framed(i)}

RECURSIVE RowCount(_)
RowCount(tables) ==
    IF tables = <<>> THEN 0 ELSE Len(Head(tables)) + RowCount(Tail(tables))

\* the tables of the last call and the matches they come from
ResultTables == IF last.last_one_only THEN <<last.ret>> ELSE last.ret
ResultSpans == IF last.last_one_only THEN <<last.spans[Len(last.spans)]>> ELSE last.spans

\* the header matches where the match starts and ends before the body
HeaderOpens(sp) ==
    LET m == MatchAt(CallHeader.re, text, sp.s) IN m.found /\ m.e <= sp.bs

\* the footer matches after the body and ends the match
FooterCloses(sp) ==
    \E p \in sp.be..sp.e :
        LET m == MatchAt(CallFooter.re, text, p) IN m.found /\ m.e = sp.e

\* C2: every row read_table_pattern returns comes from a line between a
\* header match and the footer match that closes the same match of the
\* compound pattern; rows without a header before them, or with other text
\* between them and the footer, are in no table.
C2_FramedOnly ==
    ReadTableCalled /\ last.outcome = "ok" =>
        /\ Len(ResultTables) = Len(ResultSpans)
        /\ \A i \in DOMAIN ResultSpans :
              /\ HeaderOpens(ResultSpans[i])
              /\ FooterCloses(ResultSpans[i])
              /\ i > 1 => ResultSpans[i - 1].e <= ResultSpans[i].s
              /\ Len(ResultTables[i]) = Len(BodyLinesOf(ResultSpans[i]))
              /\ \A j \in DOMAIN ResultTables[i] :
                    ResultTables[i][j]
                        = ParseLine(BodyLinesOf(ResultSpans[i])[j], CallRow, last.pp).row
        /\ RowCount(ResultTables) <= Cardinality(FramedRows)
        /\ ~last.last_one_only => RowCount(ResultTables) = Cardinality(FramedRows)

\* a table has been returned from a file that also holds a row outside any table
C2_StrayRowLeftOut ==
    /\ ReadTableCalled /\ last.outcome = "ok" /\ ~last.last_one_only
    /\ last.ret # <<>>
    /\ \E i \in DOMAIN layout : layout[i] \in RowSegs /\ ~Framed(i)

\* C9: every line of every body the compound pattern captures is matched by
\* row_pattern, so no call fails on a body line.
C9_BodyLinesMatch ==
    ReadTableCalled => ~HasUnmatchedLine /\ last.outcome # "AttributeError"

\* the table with a blank line between its two rows has been read and the
\* call has failed on the blank line
C9_BlankLineInBody ==
    /\ ReadTableCalled /\ last.outcome = "AttributeError"
    /\ layout = <<"uhdr", "urow", "brow", "ftr">>
    /\ Len(last.spans) = 1
    /\ BodyLinesOf(last.spans[1])[2] = <<>>

(***************************************************************************)
(* Scalars (SpecScalar)                                                    *)
(***************************************************************************)
\* the lines in the order the last read_pattern call scans them
ScanLines == IF last.reverse THEN ReverseLines(text) ELSE FileLines(text)

CallPattern(k) == ScalarPattern(last.patterns[k])

Hit(k, n) == Search(CallPattern(k).re, ScanLines[n]).found

\* by line n every key has had a match
AllHitBy(n) == \A k \in DOMAIN last.patterns : \E q \in 1..n : Hit(k, q)

\* the last line scanned
ScanEnd ==
    IF last.terminate_on_match /\ \E n \in DOMAIN ScanLines : AllHitBy(n)
    THEN Least({n \in DOMAIN ScanLines : AllHitBy(n)})
    ELSE Len(ScanLines)

HitLines(k) == {n \in 1..ScanEnd : Hit(k, n)}

\* the i-th scanned line that matches the pattern of k
NthHit(k, i) == CHOOSE n \in HitLines(k) : Cardinality({q \in HitLines(k) : q <= n}) = i

\* the groups of the match of line n, as text
GroupsAt(k, n) ==
    [g \in 1..Len(CallPattern(k).groups) |->
        GroupText(ScanLines[n], Search(CallPattern(k).re, ScanLines[n]),
                  CallPattern(k).groups[g])]

\* C5: after a successful read_pattern every key of patterns is a key of
\* self.data; a key without a match maps to the empty list, and a key with
\* matches has one entry per matching line scanned, in scan order.
C5_EveryKeyInScanOrder ==
    ReadPatternCalled /\ last.outcome = "ok" =>
        \A k \in DOMAIN last.patterns :
            /\ k \in DOMAIN data
            /\ Len(data[k]) = Cardinality(HitLines(k))
            /\ \A i \in DOMAIN data[k] : data[k][i][1] = GroupsAt(k, NthHit(k, i))[1]

\* a reverse scan of two patterns, one with several matches, one with none
C5_SomeAndNone ==
    /\ ReadPatternCalled /\ last.outcome = "ok" /\ last.reverse
    /\ DOMAIN last.patterns = {"energy", "S2"}
    /\ {"energy", "S2"} \subseteq DOMAIN data
    /\ Len(data["energy"]) >= 2
    /\ data["energy"][1] # data["energy"][2]
    /\ data["S2"] = <<>>

\* C6 as the code has it: for every match the scanner reports, read_pattern
\* stores the list of all the postprocessed groups of that match (the first
\* element of the scanner's entry), so a one-group pattern gives a list of
\* one-element lists.
C6_GroupLists ==
    ReadPatternCalled /\ last.outcome = "ok" =>
        \A k \in DOMAIN last.patterns :
            /\ k \in DOMAIN data
            /\ \A i \in DOMAIN data[k] : data[k][i] = GroupsAt(k, NthHit(k, i))

\* C6 as stated: read_pattern stores the first group of every match, a single
\* value, and no list of groups.
C6_FirstGroupOnly ==
    ReadPatternCalled /\ last.outcome = "ok" =>
        \A k \in DOMAIN last.patterns :
            /\ k \in DOMAIN data
            /\ \A i \in DOMAIN data[k] : data[k][i] = GroupsAt(k, NthHit(k, i))[1]

\* the file of the one line "Final energy is -1" read with the final_energy pattern
C6_OneEnergyLine ==
    /\ ReadPatternCalled /\ last.outcome = "ok"
    /\ layout = <<"fe">>
    /\ last.patterns = [final_energy |-> "final_energy"]
    /\ data["final_energy"] = << << <<"-", "1">> >> >>

(***************************************************************************)
(* The Result Mapping over a session (SpecSession)                         *)
(***************************************************************************)
\* the keys the call just made names
Targets ==
    IF last'.op = "read_pattern" THEN DOMAIN last'.patterns
    ELSE IF last'.attribute_name = None THEN {}
    ELSE {last'.attribute_name}

\* what the call just made stores under k when it starts from an empty mapping
Fresh(k) ==
    IF last'.op = "read_pattern"
    THEN ReadPatternResult(text, EmptyData, last'.patterns, last'.reverse,
                           last'.terminate_on_match, last'.pp, TRUE).data[k]
    ELSE last'.ret

\* C7: a successful call replaces the entries of exactly the keys it names
\* (the keys of patterns, or attribute_name unless it is None) and leaves
\* every other entry as it was; with attribute_name = None read_table_pattern
\* leaves self.data unchanged.
C7_Frame ==
    [][last'.outcome = "ok" =>
          /\ DOMAIN data' = DOMAIN data \cup Targets
          /\ \A k \in DOMAIN data \ Targets : data'[k] = data[k]
          /\ \A k \in Targets : data'[k] = Fresh(k)
          /\ Targets = {} => data' = data]_vars

\* a table has been stored under attribute_name beside the constructor's keys
C7_TableStored ==
    /\ ReadTableCalled /\ last.outcome = "ok" /\ last.last_one_only
    /\ last.attribute_name = "charges"
    /\ "charges" \in DOMAIN data /\ data["charges"] = last.ret /\ last.ret # <<>>
    /\ "final_energy" \in DOMAIN data

\* C8: a call that fails (postprocess raises, a body line does not match,
\* no table with last_one_only, or the file cannot be read) leaves self.data
\* exactly as it was.
C8_FailureStoresNothing ==
    [][last'.outcome # "ok" => data' = data]_vars

\* a table call asked to store its result has failed on a body line
C8_TableCallFailed ==
    /\ ReadTableCalled /\ last.outcome = "AttributeError"
    /\ last.attribute_name = "charges"
    /\ "charges" \notin DOMAIN data

(***************************************************************************)
(* The constructor (Spec)                                                  *)
(***************************************************************************)
Probes == {"unrestricted", "using_GEN_SCFMAN"}

\* C10: both probes are stored before any table is read; the GEN_SCFMAN
\* table is read iff the file holds the GEN_SCFMAN marker (else the SCF
\* table), the unrestricted Mulliken table iff it holds the unrestricted
\* marker (else the restricted one), S2 iff it holds the unrestricted marker;
\* a finished constructor leaves exactly one SCF key, exactly one Mulliken
\* key, final_energy, and S2 only for an unrestricted calculation.
C10_ProbesThenVariants ==
    /\ pc \in {"scf", "mulliken", "final_energy", "S2", "done"} => Probes \subseteq DOMAIN data
    /\ ReadTableCalled =>
          /\ Probes \subseteq DOMAIN data
          /\ last.triple = "GEN_SCFMAN" => HasSeg("gen")
          /\ last.triple = "SCF" => ~HasSeg("gen")
          /\ last.triple = "unrestricted_Mulliken" => HasSeg("unr")
          /\ last.triple = "restricted_Mulliken" => ~HasSeg("unr")
    /\ ReadPatternCalled /\ "S2" \in DOMAIN last.patterns => HasSeg("unr")
    /\ pc \in {"mulliken", "final_energy", "S2", "done"} =>
          /\ ("GEN_SCFMAN" \in DOMAIN data) = HasSeg("gen")
          /\ ("SCF" \in DOMAIN data) = ~HasSeg("gen")
    /\ pc \in {"final_energy", "S2", "done"} =>
          /\ ("unrestricted_Mulliken" \in DOMAIN data) = HasSeg("unr")
          /\ ("restricted_Mulliken" \in DOMAIN data) = ~HasSeg("unr")
    /\ pc = "done" =>
          /\ "final_energy" \in DOMAIN data
          /\ ("S2" \in DOMAIN data) = HasSeg("unr")

\* the constructor has finished on a file with both markers
C10_BothMarkers ==
    /\ pc = "done" /\ HasSeg("gen") /\ HasSeg("unr")
    /\ {"GEN_SCFMAN", "unrestricted_Mulliken", "final_energy", "S2"} \subseteq DOMAIN data

====
